---- MODULE Spec2Model ----
(***************************************************************************)
(* Model of arxiv_feed/fetch_papers.py: one run of main(), which fetches   *)
(* an Atom feed over HTTP, maps its entries to paper records, filters the  *)
(* API's error pseudo-entries and writes papers.json and papers.js.        *)
(*                                                                         *)
(* Strings are sequences of one-character strings.  File texts are         *)
(* sequences of chunks (a chunk is a character or a literal piece of       *)
(* text), so concatenation of texts is \o.  Python's None and an absent    *)
(* file are the value None; Some(v) is a present value.                    *)
(***************************************************************************)
EXTENDS Integers, Sequences, FiniteSets, TLC

\* ---------------------------------------------------------------- bounds
MaxTextLen  == 4    \* longest raw element text enumerated for clean_text
MaxAuthors  == 1    \* most <author> elements of an enumerated entry
MaxLinks    == 3    \* most <link> elements of an enumerated entry
MaxCats     == 1    \* most <category> elements of an enumerated entry
MaxChildren == 2    \* most child elements of the feed's root

\* ------------------------------------------------------- optional values
None == [none |-> TRUE]
Some(v) == [none |-> FALSE, val |-> v]

\* dict.get(key, default) / Element.findtext(path, default)
GetOr(opt, default) == IF opt.none THEN default ELSE opt.val

RECURSIVE SeqsUpTo(_, _)
SeqsUpTo(S, n) ==
  IF n = 0 THEN {<<>>}
  ELSE LET shorter == SeqsUpTo(S, n - 1)
       IN  shorter \cup {Append(s, x) : s \in shorter, x \in S}

\* ------------------------------------------------------------------ text
\* The characters re's \s and str.strip() treat as whitespace (the ASCII
\* ones an XML text node can hold).
Whitespace == {" ", "\t", "\n", "\r"}

\* s without its leading whitespace (str.lstrip)
SkipWs[s \in Seq(STRING)] ==
  IF s # <<>> /\ Head(s) \in Whitespace THEN SkipWs[Tail(s)] ELSE s

\* re.sub(r"\s+", " ", text): every maximal whitespace run becomes one space.
re_sub_ws[s \in Seq(STRING)] ==
  IF s = <<>> THEN <<>>
  ELSE IF Head(s) \in Whitespace
       THEN <<" ">> \o re_sub_ws[SkipWs[Tail(s)]]
       ELSE <<Head(s)>> \o re_sub_ws[Tail(s)]

\* s without its trailing whitespace (str.rstrip)
RStrip[s \in Seq(STRING)] ==
  IF s # <<>> /\ s[Len(s)] \in Whitespace
  THEN RStrip[SubSeq(s, 1, Len(s) - 1)]
  ELSE s

\* str.strip()
strip(s) == RStrip[SkipWs[s]]

\* A clean_text that forgets the trailing strip().
clean_text_nostrip(text) ==
  IF text.none THEN <<>> ELSE re_sub_ws[text.val]

\* clean_text(text: str | None) -> str
clean_text(text) ==
  IF text.none THEN <<>> ELSE strip(re_sub_ws[text.val])

UpperCase == <<"A","B","C","D","E","F","G","H","I","J","K","L","M",
               "N","O","P","Q","R","S","T","U","V","W","X","Y","Z">>
LowerCase == <<"a","b","c","d","e","f","g","h","i","j","k","l","m",
               "n","o","p","q","r","s","t","u","v","w","x","y","z">>

LowerChar(c) ==
  IF \E i \in 1..26 : UpperCase[i] = c
  THEN LowerCase[CHOOSE i \in 1..26 : UpperCase[i] = c]
  ELSE c

\* str.lower()
lower(s) == [i \in 1..Len(s) |-> LowerChar(s[i])]

\* str.startswith(prefix)
startswith(s, prefix) ==
  Len(s) >= Len(prefix) /\ SubSeq(s, 1, Len(prefix)) = prefix

\* ----------------------------------------------------------- parse_entry
\* An <entry> element is a record of what ElementTree's lookups return on
\* it: title, summary, published, id are findtext() results (None when the
\* element is missing), authors the <author> elements (each with the
\* findtext() of its <name>), links and categories the <link> and
\* <category> elements with their attributes (None when not set).

\* A pdf_url loop without the break: the last matching link wins.
RECURSIVE pdf_url_nobreak(_)
pdf_url_nobreak(links) ==
  IF links = <<>> THEN <<>>
  ELSE IF links[Len(links)].title = Some(<<"p","d","f">>)
       THEN GetOr(links[Len(links)].href, <<>>)
       ELSE pdf_url_nobreak(SubSeq(links, 1, Len(links) - 1))

\* pdf_url = ""; for link in ...: if link.get("title") == "pdf": ...; break
RECURSIVE pdf_url_of(_)
pdf_url_of(links) ==
  IF links = <<>> THEN <<>>
  ELSE IF Head(links).title = Some(<<"p","d","f">>)
       THEN GetOr(Head(links).href, <<>>)
       ELSE pdf_url_of(Tail(links))

\* [cat.get("term", "") for cat in ... if cat.get("term")]
categories_of(cats) ==
  LET truthy(c) == ~c.term.none /\ c.term.val # <<>>
      kept == SelectSeq(cats, truthy)
  IN  [i \in 1..Len(kept) |-> GetOr(kept[i].term, <<>>)]

parse_entry(e) ==
  [title        |-> clean_text(e.title),
   authors      |-> [i \in 1..Len(e.authors) |-> clean_text(e.authors[i].name)],
   abstract     |-> clean_text(e.summary),
   published    |-> GetOr(e.published, <<>>),
   abstract_url |-> clean_text(e.id),
   pdf_url      |-> pdf_url_of(e.links),
   categories   |-> categories_of(e.categories)]

\* ------------------------------------------------------------ json.dumps
\* The concatenation of a sequence of texts.
Flatten[ts \in Seq(Seq(STRING))] ==
  IF ts = <<>> THEN <<>> ELSE Head(ts) \o Flatten[Tail(ts)]

\* SEARCH_QUERY: all:"<term>" joined by " OR ", over these terms.
QueryTerms ==
  <<"maternal health", "maternal mortality", "maternal morbidity",
    "pregnancy outcome", "prenatal care", "antenatal care",
    "obstetric", "preeclampsia", "gestational diabetes",
    "postpartum", "perinatal", "neonatal mortality",
    "cesarean", "preterm birth", "fetal health",
    "endometriosis", "postpartum depression">>

SEARCH_QUERY ==
  Flatten[[i \in 1..Len(QueryTerms) |->
             (IF i = 1 THEN <<>> ELSE <<" OR ">>)
             \o <<"all:", "\"", QueryTerms[i], "\"">>]]

Digits == <<"0","1","2","3","4","5","6","7","8","9">>
Pad2(n) == <<Digits[((n \div 10) % 10) + 1], Digits[(n % 10) + 1]>>
Pad4(n) == Pad2(n \div 100) \o Pad2(n % 100)

\* strftime("%Y-%m-%d %H:%M:%S UTC")
strftime(t) ==
  Pad4(t.year) \o <<"-">> \o Pad2(t.month) \o <<"-">> \o Pad2(t.day) \o <<" ">>
  \o Pad2(t.hour) \o <<":">> \o Pad2(t.minute) \o <<":">> \o Pad2(t.second)
  \o <<" ", "U", "T", "C">>

\* The escapes json.dumps applies with ensure_ascii=False.
JsonEscapeChar(c) ==
  CASE c = "\"" -> <<"\\", "\"">>
    [] c = "\\" -> <<"\\", "\\">>
    [] c = "\n" -> <<"\\", "n">>
    [] c = "\r" -> <<"\\", "r">>
    [] c = "\t" -> <<"\\", "t">>
    [] OTHER    -> <<c>>

JsonEscape[s \in Seq(STRING)] ==
  Flatten[[i \in 1..Len(s) |-> JsonEscapeChar(s[i])]]

JsonStr(s) == <<"\"">> \o JsonEscape[s] \o <<"\"">>

\* A newline and the indentation of nesting level lvl (indent=2).
Indent(lvl) == <<"\n">> \o [i \in 1..(2 * lvl) |-> " "]

\* The items of a list or object at nesting level lvl, one per line,
\* separated by commas.
JsonItemsAt[a \in Seq(Seq(STRING)) \X Nat] ==
  Flatten[[i \in 1..Len(a[1]) |->
             Indent(a[2]) \o a[1][i]
             \o (IF i < Len(a[1]) THEN <<",">> ELSE <<>>)]]

JsonItems(items, lvl) == JsonItemsAt[<<items, lvl>>]

JsonListAt[a \in Seq(Seq(STRING)) \X Nat] ==
  IF a[1] = <<>> THEN <<"[", "]">>
  ELSE <<"[">> \o JsonItems(a[1], a[2] + 1) \o Indent(a[2]) \o <<"]">>

\* A list that is laid out over several lines even when it is empty.
JsonListOpen(items, lvl) ==
  <<"[">> \o JsonItems(items, lvl + 1) \o Indent(lvl) \o <<"]">>

\* A list whose items are already serialised; lvl is the list's own level.
\* The empty list is "[]".
JsonList(items, lvl) == JsonListAt[<<items, lvl>>]

JsonStrList(strs, lvl) ==
  JsonList([i \in 1..Len(strs) |-> JsonStr(strs[i])], lvl)

\* An object from its members, each <<key, serialised value>>.
JsonObjectAt[a \in Seq(STRING \X Seq(STRING)) \X Nat] ==
  <<"{">>
  \o JsonItems([i \in 1..Len(a[1]) |->
                  <<"\"", a[1][i][1], "\"", ":", " ">> \o a[1][i][2]],
               a[2] + 1)
  \o Indent(a[2]) \o <<"}">>

JsonObject(members, lvl) == JsonObjectAt[<<members, lvl>>]

\* The paper records of section 3 of the data model (parse_entry's dict).
Paper ==
  [title : Seq(STRING), authors : Seq(Seq(STRING)), abstract : Seq(STRING),
   published : Seq(STRING), abstract_url : Seq(STRING), pdf_url : Seq(STRING),
   categories : Seq(Seq(STRING))]

\* main's output dict
FeedResult ==
  [last_updated : Seq(STRING), query : Seq(STRING), papers : Seq(Paper)]

\* A paper record serialised at nesting level a[2].
JsonPaperAt[a \in Paper \X Nat] ==
  JsonObject(<< <<"title",        JsonStr(a[1].title)>>,
                <<"authors",      JsonStrList(a[1].authors, a[2] + 1)>>,
                <<"abstract",     JsonStr(a[1].abstract)>>,
                <<"published",    JsonStr(a[1].published)>>,
                <<"abstract_url", JsonStr(a[1].abstract_url)>>,
                <<"pdf_url",      JsonStr(a[1].pdf_url)>>,
                <<"categories",   JsonStrList(a[1].categories, a[2] + 1)>> >>,
             a[2])

JsonPaper(p, lvl) == JsonPaperAt[<<p, lvl>>]

JsonDumpsOf[output \in FeedResult] ==
  JsonObject(<< <<"last_updated", JsonStr(output.last_updated)>>,
                <<"query",        JsonStr(output.query)>>,
                <<"papers",       JsonList([i \in 1..Len(output.papers) |->
                                              JsonPaper(output.papers[i], 2)],
                                           1)>> >>,
             0)

\* json.dumps(output, indent=2, ensure_ascii=False) of main's output dict
json_dumps(output) == JsonDumpsOf[output]

\* main's output dict for the clock reading t
Output(t, ps) ==
  [last_updated |-> strftime(t), query |-> SEARCH_QUERY, papers |-> ps]

JS_PREFIX == <<"const PAPERS_DATA = ">>
JS_SUFFIX == <<";", "\n">>

\* A script text that forgets the semicolon.
js_text_nosemi(json) == JS_PREFIX \o json \o <<"\n">>

\* f"const PAPERS_DATA = {json_str};\n"
js_text(json) == JS_PREFIX \o json \o JS_SUFFIX

\* ---------------------------------------------------------------- inputs
PDF == <<"p","d","f">>

\* Raw <title> texts of the feeds the run is given: papers, the API's error
\* pseudo-entries in several case variants, and near misses.
FeedTitles ==
  { None,
    Some(<<"A"," ","\n","b">>),
    Some(<<"\n","E","r","r","o","r",":"," ","q">>),
    Some(<<"e","R","R","O","R">>),
    Some(<<"E","r","r","o">>),
    Some(<<"t","e","r","r","o","r">>) }

FeedEntry(title) ==
  [tag        |-> "entry",
   title      |-> title,
   authors    |-> << [name |-> Some(<<" ","A","\t","B">>)] >>,
   summary    |-> Some(<<"s","\n","t">>),
   published  |-> Some(<<"2","0","2","6">>),
   id         |-> Some(<<"u">>),
   links      |-> << [title |-> None, href |-> Some(<<"u">>)],
                     [title |-> Some(PDF), href |-> Some(<<"p">>)] >>,
   categories |-> << [term |-> Some(<<"c","s">>)] >>]

\* The children of the feed's root: entries, and elements that are not
\* entries (the feed's own <title>, <opensearch:totalResults>, ...).
ChildPool == {FeedEntry(t) : t \in FeedTitles} \cup {[tag |-> "title"]}

\* Response bodies: bytes that are not well-formed XML, or a feed.
Bodies ==
  {[well_formed |-> FALSE, children |-> <<>>]}
  \cup {[well_formed |-> TRUE, children |-> c] :
          c \in SeqsUpTo(ChildPool, MaxChildren)}

\* What the network gives urlopen: a transport error, or a response status.
NetOutcomes ==
  {[exc |-> e, status |-> 0] : e \in {"URLError", "timeout"}}
  \cup {[exc |-> "none", status |-> st] : st \in {200, 204, 404, 500}}

\* Readings of the clock at datetime.now().
Times ==
  {[year |-> 2026, month |-> 11, day |-> 3, hour |-> 7, minute |-> 5, second |-> 9],
   [year |-> 2026, month |-> 11, day |-> 4, hour |-> 23, minute |-> 40, second |-> 0]}

\* What an earlier run left in the two output files.
PrevTime ==
  [year |-> 2026, month |-> 11, day |-> 2, hour |-> 7, minute |-> 5, second |-> 8]
PrevJson ==
  json_dumps(Output(PrevTime, <<parse_entry(FeedEntry(Some(<<"O","l","d">>)))>>))
PrevFiles ==
  {None, Some(PrevJson)} \X {None, Some(js_text(PrevJson))}

\* Entries enumerated for parse_entry: every raw title over a small
\* alphabet, and every list of links over a small pool.
TextAlphabet == {" ", "\t", "\n", "a"}
RawTexts == {None} \cup {Some(t) : t \in SeqsUpTo(TextAlphabet, MaxTextLen)}
NamePool == {None, Some(<<" ","A","\n","\n","B","\t">>), Some(<<"C">>)}
SummaryPool == {None, Some(<<"\n"," ","x"," "," ","y","\r">>)}
LinkPool ==
  {[title |-> Some(PDF), href |-> Some(<<"p","1">>)],
   [title |-> Some(PDF), href |-> Some(<<"p","2">>)],
   [title |-> Some(PDF), href |-> None],
   [title |-> None, href |-> Some(<<"h">>)],
   [title |-> Some(<<"P","D","F">>), href |-> Some(<<"h","2">>)]}
CatPool == {[term |-> None], [term |-> Some(<<>>)], [term |-> Some(<<"c","s">>)]}

TextEntries ==
  {[tag |-> "entry", title |-> t,
    authors |-> [i \in 1..Len(ns) |-> [name |-> ns[i]]],
    summary |-> sm, published |-> None, id |-> None,
    links |-> <<>>, categories |-> <<>>] :
     t \in RawTexts, ns \in SeqsUpTo(NamePool, MaxAuthors), sm \in SummaryPool}

LinkEntries ==
  {[tag |-> "entry", title |-> None, authors |-> <<>>,
    summary |-> None, published |-> Some(<<"\n","2","6">>), id |-> Some(<<" ","u">>),
    links |-> ls, categories |-> cs] :
     ls \in SeqsUpTo(LinkPool, MaxLinks), cs \in SeqsUpTo(CatPool, MaxCats)}

\* ----------------------------------------------------------------- state
VARIABLES
  pc,         \* where the run is: the next statement of fetch_papers / main
  requests,   \* outbound HTTP requests issued so far
  status,     \* the response's HTTP status (0: no response)
  exc,        \* the exception the fetch raised ("none": none)
  data,       \* the response body read (None: not read)
  root,       \* the children of the parsed document's root
  entries,    \* root.findall("{Atom}entry")
  idx,        \* the for loop's position in entries (1-based)
  papers,     \* the list fetch_papers builds and returns
  json_str,   \* main's serialised output (None: not built)
  file_json,  \* content of papers.json (None: no such file)
  file_js,    \* content of papers.js (None: no such file)
  prev_json,  \* content of papers.json when the process started
  prev_js,    \* content of papers.js when the process started
  exit_code,  \* the process's exit status (None: still running)
  raised,     \* the statement that ended the run abnormally ("none": none)
  arg,        \* parse_entry called on its own: the entry given
  ret         \* parse_entry called on its own: the record returned

vars == <<pc, requests, status, exc, data, root, entries, idx, papers,
          json_str, file_json, file_js, prev_json, prev_js, exit_code,
          raised, arg, ret>>

fetch_vars == <<status, exc, data>>
parse_vars == <<root, entries, idx, papers>>
file_vars  == <<file_json, file_js>>
call_vars  == <<arg, ret>>

ERROR_PREFIX == <<"e","r","r","o","r">>

\* An error test that forgets lower().
is_error_title_cased(title) == startswith(title, ERROR_PREFIX)

\* paper["title"].lower().startswith("error")
is_error_title(title) == startswith(lower(title), ERROR_PREFIX)

\* A loop body that puts each paper in front of the earlier ones.
loop_body_prepend(ps, es, i) ==
  LET paper == parse_entry(es[i])
  IN  IF is_error_title(paper.title)
      THEN [papers |-> ps, idx |-> i + 1]
      ELSE [papers |-> <<paper>> \o ps, idx |-> i + 1]

\* One iteration of "for entry in entries": parse, skip or append.
loop_body(ps, es, i) ==
  LET paper == parse_entry(es[i])
  IN  IF is_error_title(paper.title)
      THEN [papers |-> ps, idx |-> i + 1]
      ELSE [papers |-> Append(ps, paper), idx |-> i + 1]

\* What a write that fails part-way can leave in the file it truncated: a
\* proper prefix of the text.  Three cuts stand for all of them: nothing,
\* about half, and all but the last chunk.
PartialTexts(text) ==
  {SubSeq(text, 1, k) : k \in {0, Len(text) \div 2, Len(text) - 1}}

\* The process ends: sys.exit(code), or an uncaught exception (the
\* interpreter prints the traceback and exits with status 1).
Exit(code, site) ==
  /\ pc' = "done"
  /\ exit_code' = Some(code)
  /\ raised' = site

\* An except clause that starts the fetch again.
except_clause_retry == [pc |-> "urlopen", exit_code |-> None]

\* except Exception as exc: print(...); sys.exit(1)
except_clause == [pc |-> "done", exit_code |-> Some(1)]

Caught(site) ==
  /\ pc' = except_clause.pc
  /\ exit_code' = except_clause.exit_code
  /\ raised' = site

\* A file opened for appending: the old content stays.
open_a(content) == IF content.none THEN Some(<<>>) ELSE content

\* open(path, "w"): the file is created or truncated
open_w(content) == Some(<<>>)

\* f.write(text) on the open file
write(content, text) == Some(content.val \o text)

Running(next) ==
  /\ pc' = next
  /\ UNCHANGED <<exit_code, raised>>

InitRun ==
  /\ pc = "urlopen"
  /\ requests = 0
  /\ status = 0
  /\ exc = "none"
  /\ data = None
  /\ root = <<>>
  /\ entries = <<>>
  /\ idx = 1
  /\ papers = <<>>
  /\ json_str = None
  /\ \E f \in PrevFiles :
       /\ file_json = f[1] /\ prev_json = f[1]
       /\ file_js = f[2] /\ prev_js = f[2]
  /\ exit_code = None
  /\ raised = "none"

Init ==
  /\ InitRun
  /\ arg = None
  /\ ret = None

\* urlopen(req, timeout=30): one request.  A transport error, or (raised by
\* urllib itself) HTTPError for a status outside 2xx, lands in the except
\* clause, which exits with status 1.
UrlOpen ==
  /\ pc = "urlopen"
  /\ requests' = requests + 1
  /\ \E o \in NetOutcomes :
       IF o.exc # "none"
       THEN /\ exc' = o.exc
            /\ UNCHANGED status
            /\ Caught("urlopen")
       ELSE IF o.status \notin 200..299
       THEN /\ exc' = "HTTPError"
            /\ status' = o.status
            /\ Caught("urlopen")
       ELSE /\ status' = o.status
            /\ UNCHANGED exc
            /\ Running("status")
  /\ UNCHANGED <<data, json_str>>
  /\ UNCHANGED <<parse_vars, file_vars, prev_json, prev_js, call_vars>>

\* A status check that lets every response through.
status_ok_any(st) == TRUE

\* resp.status != 200 is the failure
status_ok(st) == st = 200

\* if resp.status != 200: sys.exit(1).  SystemExit is not an Exception, so
\* the except clause does not catch it.
CheckStatus ==
  /\ pc = "status"
  /\ IF status_ok(status) THEN Running("read") ELSE Exit(1, "status")
  /\ UNCHANGED <<requests, json_str>>
  /\ UNCHANGED <<fetch_vars, parse_vars, file_vars, prev_json, prev_js, call_vars>>

\* data = resp.read(): the body, or a transport error while reading it.
ReadBody ==
  /\ pc = "read"
  /\ \/ \E b \in Bodies :
          /\ data' = Some(b)
          /\ UNCHANGED exc
          /\ Running("fromstring")
     \/ /\ exc' = "IncompleteRead"
        /\ UNCHANGED data
        /\ Caught("read")
  /\ UNCHANGED <<requests, status, json_str>>
  /\ UNCHANGED <<parse_vars, file_vars, prev_json, prev_js, call_vars>>

\* A parser that answers bytes it cannot parse with an empty document.
xml_parses_lenient(body) == TRUE

\* ET.fromstring succeeds on well-formed XML only
xml_parses(body) == body.well_formed

\* root = ET.fromstring(data): ParseError is not caught anywhere.
FromString ==
  /\ pc = "fromstring"
  /\ IF xml_parses(data.val)
     THEN /\ root' = data.val.children
          /\ Running("findall")
     ELSE /\ UNCHANGED root
          /\ Exit(1, "fromstring")
  /\ UNCHANGED <<requests, json_str, entries, idx, papers>>
  /\ UNCHANGED <<fetch_vars, file_vars, prev_json, prev_js, call_vars>>

\* root.findall(f"{ATOM_NS}entry")
findall_entry(children) == SelectSeq(children, LAMBDA c : c.tag = "entry")

\* entries = root.findall(...); if not entries: return []; papers = []
FindEntries ==
  /\ pc = "findall"
  /\ entries' = findall_entry(root)
  /\ papers' = <<>>
  /\ idx' = 1
  /\ IF entries' = <<>> THEN Running("output") ELSE Running("loop")
  /\ UNCHANGED <<requests, json_str, root>>
  /\ UNCHANGED <<fetch_vars, file_vars, prev_json, prev_js, call_vars>>

\* for entry in entries: ...
LoopStep ==
  /\ pc = "loop"
  /\ idx <= Len(entries)
  /\ LET r == loop_body(papers, entries, idx)
     IN  /\ papers' = r.papers
         /\ idx' = r.idx
  /\ Running("loop")
  /\ UNCHANGED <<requests, json_str, root, entries>>
  /\ UNCHANGED <<fetch_vars, file_vars, prev_json, prev_js, call_vars>>

\* the loop is exhausted: print the count, return papers
LoopEnd ==
  /\ pc = "loop"
  /\ idx > Len(entries)
  /\ Running("output")
  /\ UNCHANGED <<requests, json_str>>
  /\ UNCHANGED <<fetch_vars, parse_vars, file_vars, prev_json, prev_js, call_vars>>

\* output = {...}; json_str = json.dumps(output, indent=2, ensure_ascii=False)
BuildOutput ==
  /\ pc = "output"
  /\ \E t \in Times : json_str' = Some(json_dumps(Output(t, papers)))
  /\ Running("open_json")
  /\ UNCHANGED requests
  /\ UNCHANGED <<fetch_vars, parse_vars, file_vars, prev_json, prev_js, call_vars>>

\* open(OUTPUT_JSON, "w"): truncates the file, or fails with OSError.
OpenJson ==
  /\ pc = "open_json"
  /\ \/ /\ file_json' = open_w(file_json)
        /\ Running("write_json")
     \/ /\ UNCHANGED file_json
        /\ Exit(1, "open_json")
  /\ UNCHANGED <<requests, json_str, file_js>>
  /\ UNCHANGED <<fetch_vars, parse_vars, prev_json, prev_js, call_vars>>

\* f.write(json_str) and the close at the end of the with block: the whole
\* text, or OSError with part of it on disk.
WriteJson ==
  /\ pc = "write_json"
  /\ \/ /\ file_json' = write(file_json, json_str.val)
        /\ Running("open_js")
     \/ /\ \E part \in PartialTexts(json_str.val) :
             file_json' = write(file_json, part)
        /\ Exit(1, "write_json")
  /\ UNCHANGED <<requests, json_str, file_js>>
  /\ UNCHANGED <<fetch_vars, parse_vars, prev_json, prev_js, call_vars>>

\* open(OUTPUT_JS, "w")
OpenJs ==
  /\ pc = "open_js"
  /\ \/ /\ file_js' = open_w(file_js)
        /\ Running("write_js")
     \/ /\ UNCHANGED file_js
        /\ Exit(1, "open_js")
  /\ UNCHANGED <<requests, json_str, file_json>>
  /\ UNCHANGED <<fetch_vars, parse_vars, prev_json, prev_js, call_vars>>

\* f.write(f"const PAPERS_DATA = {json_str};\n"), the close, the final
\* print; main returns and the process exits with status 0.
WriteJs ==
  /\ pc = "write_js"
  /\ \/ /\ file_js' = write(file_js, js_text(json_str.val))
        /\ Exit(0, "none")
     \/ /\ \E part \in PartialTexts(js_text(json_str.val)) :
             file_js' = write(file_js, part)
        /\ Exit(1, "write_js")
  /\ UNCHANGED <<requests, json_str, file_json>>
  /\ UNCHANGED <<fetch_vars, parse_vars, prev_json, prev_js, call_vars>>

Next ==
  \/ UrlOpen
  \/ CheckStatus
  \/ ReadBody
  \/ FromString
  \/ FindEntries
  \/ LoopStep
  \/ LoopEnd
  \/ BuildOutput
  \/ OpenJson
  \/ WriteJson
  \/ OpenJs
  \/ WriteJs

Spec == Init /\ [][Next]_vars

\* The program is sequential and every statement returns (the request has a
\* timeout): a run that can take a step takes it.
FairSpec == Spec /\ WF_vars(Next)

\* -------------------------------------------------- parse_entry on its own
InitEntry ==
  /\ pc = "parse_entry"
  /\ requests = 0
  /\ status = 0
  /\ exc = "none"
  /\ data = None
  /\ root = <<>>
  /\ entries = <<>>
  /\ idx = 1
  /\ papers = <<>>
  /\ json_str = None
  /\ file_json = None /\ prev_json = None
  /\ file_js = None /\ prev_js = None
  /\ exit_code = None
  /\ raised = "none"
  /\ arg \in {Some(e) : e \in TextEntries \cup LinkEntries}
  /\ ret = None

ParseEntryCall ==
  /\ pc = "parse_entry"
  /\ ret = None
  /\ ret' = Some(parse_entry(arg.val))
  /\ UNCHANGED <<pc, requests, json_str, prev_json, prev_js, exit_code, raised, arg>>
  /\ UNCHANGED <<fetch_vars, parse_vars, file_vars>>

NextEntry == ParseEntryCall

EntrySpec == InitEntry /\ [][NextEntry]_vars

\* ------------------------------------------------------------ properties
\* The feed's entry elements, in document order, as the response gave them.
FeedEntries ==
  IF data.none \/ ~data.val.well_formed THEN <<>>
  ELSE SelectSeq(data.val.children, LAMBDA c : c.tag = "entry")

\* The record of every entry of the feed.
Parsed == [i \in 1..Len(FeedEntries) |-> parse_entry(FeedEntries[i])]

\* "error" in any case variant at the start of t.
HasErrorPrefix(t) ==
  /\ Len(t) >= 5
  /\ t[1] \in {"e", "E"}
  /\ t[2] \in {"r", "R"}
  /\ t[3] \in {"r", "R"}
  /\ t[4] \in {"o", "O"}
  /\ t[5] \in {"r", "R"}

WriteSites == {"open_json", "write_json", "open_js", "write_js"}
FetchSites == {"urlopen", "status", "read"}

\* fetch_papers has returned to main.
Returned ==
  \/ pc \in {"output", "open_json", "write_json", "open_js", "write_js"}
  \/ pc = "done" /\ raised \in WriteSites \cup {"none"}

\* The fetch ended in a transport error or a status other than 200.
FetchFailed == exc # "none" \/ (status # 0 /\ status # 200)

IsProperPrefix(part, text) ==
  Len(part) < Len(text) /\ part = SubSeq(text, 1, Len(part))

\* C1: whenever the fetch has ended in a non-200 status or a transport
\* exception, the run is at most one step (the status check) from exiting,
\* exits with code 1, never builds the output and never reaches a write
\* step: both files hold what they held when the process started.
C1_FetchFailureWritesNothing ==
  FetchFailed =>
    /\ pc \in {"status", "done"}
    /\ pc = "done" => exit_code = Some(1) /\ raised \in FetchSites
    /\ json_str = None
    /\ file_json = prev_json
    /\ file_js = prev_js

C1_Witness ==
  /\ pc = "done"
  /\ status = 204
  /\ raised = "status"
  /\ exit_code = Some(1)
  /\ prev_json # None
  /\ file_json = prev_json

\* C2: when no entry of the feed has a cleaned title starting with "error"
\* in any case, fetch_papers returns one record per entry, the i-th being
\* parse_entry of the i-th entry.
C2_AllEntriesKeptInOrder ==
  (Returned /\ \A i \in 1..Len(Parsed) : ~HasErrorPrefix(Parsed[i].title))
    => /\ Len(papers) = Len(FeedEntries)
       /\ \A i \in 1..Len(papers) : papers[i] = parse_entry(FeedEntries[i])

C2_Witness ==
  /\ Returned
  /\ Len(FeedEntries) = 2
  /\ \A i \in 1..2 : ~HasErrorPrefix(Parsed[i].title)
  /\ Len(papers) = 2
  /\ papers[1] # papers[2]

\* C3: the sequence fetch_papers returns is the feed's records without
\* exactly those whose title starts with "error" in any case (the later
\* entries are still processed), so no returned record has such a title;
\* the serialised output, and the files of a successful run, hold exactly
\* that sequence.
C3_ErrorEntriesExcluded ==
  LET kept == SelectSeq(Parsed, LAMBDA p : ~HasErrorPrefix(p.title))
  IN  Returned =>
        /\ papers = kept
        /\ \A i \in 1..Len(papers) : ~HasErrorPrefix(papers[i].title)
        /\ json_str # None =>
             \E t \in Times : json_str.val = json_dumps(Output(t, kept))
        /\ (pc = "done" /\ exit_code = Some(0)) =>
             /\ file_json = json_str
             /\ file_js = Some(js_text(json_str.val))

C3_Witness ==
  /\ pc = "done"
  /\ exit_code = Some(0)
  /\ Len(FeedEntries) = 2
  /\ HasErrorPrefix(Parsed[1].title)
  /\ Parsed[1].title[1] = "E"
  /\ ~HasErrorPrefix(Parsed[2].title)
  /\ papers = <<Parsed[2]>>

\* The fetch succeeded and the parsed feed has no entry element.
EmptyFeed ==
  /\ status = 200
  /\ ~data.none
  /\ data.val.well_formed
  /\ FeedEntries = <<>>
  /\ pc \notin {"fromstring", "findall"}

EmptyPapersTail == <<"\"", "papers", "\"", ":", " ", "[", "]", "\n", "}">>

EndsWith(text, tail) ==
  Len(text) >= Len(tail)
  /\ SubSeq(text, Len(text) - Len(tail) + 1, Len(text)) = tail

\* C4: with status 200 and a feed of zero entries, fetch_papers returns the
\* empty sequence and the run goes on to the writer (it never exits in
\* fetch_papers); the output built has "papers": [], and the run ends only
\* with exit code 0 and both files holding that output, or in a failed file
\* write.
C4_EmptyFeedSucceeds ==
  EmptyFeed =>
    /\ Returned
    /\ papers = <<>>
    /\ json_str # None =>
         /\ \E t \in Times : json_str.val = json_dumps(Output(t, <<>>))
         /\ EndsWith(json_str.val, EmptyPapersTail)
    /\ pc = "done" =>
         \/ raised \in WriteSites
         \/ /\ raised = "none"
            /\ exit_code = Some(0)
            /\ file_json = json_str
            /\ EndsWith(file_json.val, EmptyPapersTail)
            /\ EndsWith(file_js.val, EmptyPapersTail \o <<";", "\n">>)

C4_Witness ==
  /\ EmptyFeed
  /\ Len(data.val.children) = 1
  /\ pc = "done"
  /\ exit_code = Some(0)
  /\ EndsWith(file_json.val, EmptyPapersTail)

\* The script text without its assignment prefix and ";\n" suffix.
StripJs(text) == SubSeq(text, 2, Len(text) - 2)

\* C5: after a successful run papers.js is "const PAPERS_DATA = ", then
\* exactly the text of papers.json, then ";" and a newline, so the payload
\* cut out of the script file is the JSON file's text.
C5_ScriptEmbedsJsonFile ==
  (pc = "done" /\ exit_code = Some(0)) =>
    /\ ~file_json.none /\ ~file_js.none
    /\ file_js.val = <<"const PAPERS_DATA = ">> \o file_json.val \o <<";", "\n">>
    /\ StripJs(file_js.val) = file_json.val

C5_Witness ==
  /\ pc = "done"
  /\ exit_code = Some(0)
  /\ Len(papers) = 1
  /\ prev_js # None
  /\ file_js # prev_js

\* The response had status 200 and a body that is not well-formed XML.
Malformed == ~data.none /\ ~data.val.well_formed /\ pc # "fromstring"

\* C6: after a 200 response whose body is not well-formed XML the process
\* has ended at once with a non-zero exit from the uncaught parse failure:
\* no entries are processed, no output is built, no file is touched.
C6_MalformedXmlIsFatal ==
  Malformed =>
    /\ pc = "done"
    /\ raised = "fromstring"
    /\ ~exit_code.none /\ exit_code.val # 0
    /\ entries = <<>> /\ papers = <<>> /\ idx = 1
    /\ json_str = None
    /\ file_json = prev_json /\ file_js = prev_js

C6_Witness ==
  /\ Malformed
  /\ status = 200
  /\ pc = "done"
  /\ raised = "fromstring"
  /\ prev_js # None

\* The positions of the links whose title attribute is "pdf".
PdfLinks(links) == {i \in 1..Len(links) : links[i].title = Some(<<"p","d","f">>)}

\* C7: pdf_url is the href of the first link whose title is "pdf" (the
\* empty string if that link has no href, whatever the later links hold),
\* and the empty string when no link has title "pdf".
C7_PdfUrlFirstPdfLink ==
  ~ret.none =>
    LET links == arg.val.links
        first == CHOOSE i \in PdfLinks(links) : \A j \in PdfLinks(links) : i <= j
    IN  IF PdfLinks(links) = {}
        THEN ret.val.pdf_url = <<>>
        ELSE IF links[first].href.none
        THEN ret.val.pdf_url = <<>>
        ELSE ret.val.pdf_url = links[first].href.val

C7_Witness ==
  /\ ~ret.none
  /\ LET links == arg.val.links
     IN  /\ Len(links) = 3
         /\ links[1].title # Some(<<"p","d","f">>)
         /\ links[2].title = Some(<<"p","d","f">>) /\ links[2].href = None
         /\ links[3].title = Some(<<"p","d","f">>) /\ links[3].href # None
  /\ ret.val.pdf_url = <<>>

\* No leading or trailing whitespace, no whitespace but single spaces.
IsClean(s) ==
  /\ \A i \in 1..Len(s) : s[i] \in Whitespace => s[i] = " "
  /\ \A i \in 1..(Len(s) - 1) : ~(s[i] = " " /\ s[i + 1] = " ")
  /\ s # <<>> => s[1] # " " /\ s[Len(s)] # " "

NonWs(s) == SelectSeq(s, LAMBDA c : c \notin Whitespace)

\* The cleaned text of a raw field: clean, "" for a missing element, and
\* with the raw text's non-whitespace characters.
CleanOf(raw, cleaned) ==
  /\ IsClean(cleaned)
  /\ raw.none => cleaned = <<>>
  /\ ~raw.none => NonWs(cleaned) = NonWs(raw.val)

\* C8: in every record parse_entry returns, the title, every author name
\* and the abstract have no leading or trailing whitespace and no
\* whitespace other than single spaces between non-whitespace runs; a
\* missing element gives the empty string.
C8_TextFieldsCollapsed ==
  ~ret.none =>
    /\ CleanOf(arg.val.title, ret.val.title)
    /\ CleanOf(arg.val.summary, ret.val.abstract)
    /\ Len(ret.val.authors) = Len(arg.val.authors)
    /\ \A i \in 1..Len(ret.val.authors) :
         CleanOf(arg.val.authors[i].name, ret.val.authors[i])

C8_Witness ==
  /\ ~ret.none
  /\ arg.val.title = Some(<<"\n", "a", "\t", " ">> )
  /\ ret.val.title = <<"a">>
  /\ Len(ret.val.authors) = 1
  /\ ret.val.authors[1] = <<"A", " ", "B">>
  /\ ret.val.abstract = <<"x", " ", "y">>

C10_AsStated ==
  /\ file_js # prev_js => file_json = json_str
  /\ raised \in {"open_json", "write_json"} => file_js = prev_js
  /\ raised \in {"open_js", "write_js"} =>
       file_json = json_str /\ file_js = prev_js

\* C10 amended: as stated, but a second write that fails after the file was
\* opened leaves papers.js truncated, holding a proper prefix of the new
\* script text (never the complete one), not the previous content; only a
\* failed open leaves the previous content.
C10_SequentialWrites ==
  /\ file_js # prev_js => (~json_str.none /\ file_json = json_str)
  /\ pc \in {"open_js", "write_js"} => (~json_str.none /\ file_json = json_str)
  /\ raised \in {"open_json", "write_json"} => file_js = prev_js
  /\ raised = "open_js" => file_json = json_str /\ file_js = prev_js
  /\ raised = "write_js" =>
       /\ file_json = json_str
       /\ ~file_js.none
       /\ IsProperPrefix(file_js.val,
                         <<"const PAPERS_DATA = ">> \o json_str.val \o <<";", "\n">>)

C10_Witness ==
  /\ raised = "write_js"
  /\ exit_code = Some(1)
  /\ prev_js # None
  /\ file_js # prev_js
  /\ file_js # Some(<<>>)
  /\ file_json = json_str

====
